---- MODULE Spec2Model ----
(***************************************************************************)
(* Network-isolation reconciliation steps of sunbeam:                      *)
(*   import_network_isolation_answers   (steps/network_isolation.py)       *)
(*   EnsureJujuSpacesStep               (steps/juju_spaces.py)             *)
(*   EnsureMetalLBIsolationStep         (steps/k8s_isolation.py)           *)
(* The answer store, the Juju model (spaces, default-space, applications   *)
(* and their config) and the MetalLB resources are the state; every public *)
(* operation is one action that runs the whole handler, with the outcome   *)
(* of each collaborator call (success or exception) drawn as an input.     *)
(***************************************************************************)
EXTENDS Integers, Sequences, FiniteSets, TLC

VARIABLES
    ni_bucket,      \* answer store, key "network_isolation"
    addons_bucket,  \* answer store, key "TerraformVarsK8SAddons", sub-key "k8s-addons"
    snap_json,      \* /var/snap/openstack/common/network-isolation.json
    live_spaces,    \* names of the spaces of the Juju model
    default_space,  \* model-config default-space of the Juju model
    k8s_objs,       \* names of the MetalLB resources that exist
    live_apps,      \* applications deployed in the Juju model
    app_config,     \* application -> pool named by kubernetes-service-annotations
    kube,           \* self.kube of EnsureMetalLBIsolationStep
    last,           \* record of the operation that ran last
    prev            \* record of the operation that ran before it

vars == <<ni_bucket, addons_bucket, snap_json, live_spaces, default_space,
          k8s_objs, live_apps, app_config, kube, last, prev>>

(***************************************************************************)
(* Bounds                                                                  *)
(***************************************************************************)
\* number of entries of the "spaces" mapping
MaxSpaces == 2

(***************************************************************************)
(* Values                                                                  *)
(***************************************************************************)
\* Python None for optional strings
None == "None"

\* dict.get("enable_isolation"): key absent, false or true
Flags == {"missing", "false", "true"}

\* Python truthiness of dict.get("enable_isolation")
FlagTruthy(f) == f = "true"

\* Python truthiness of an Optional[str]
StrTruthy(s) == s \notin {None, ""}

NETWORK_ISOLATION_KEY == "network_isolation"

DEFAULT_SPACE == "default-space=management"

SpaceNames == {"management", "data", "storage"}

SubnetLists == {<<>>, <<"10.0.0.0/24">>}

\* the "spaces" mapping in insertion order: distinct names, at most MaxSpaces
SpaceSpecs == [name : SpaceNames, subnets : SubnetLists]

SpacesMappings ==
    {s \in UNION {[1..n -> SpaceSpecs] : n \in 0..MaxSpaces} :
        \A i, j \in 1..Len(s) : i # j => s[i].name # s[j].name}

\* the value under "network_isolation" inside the bucket (absent: present = FALSE)
NoInner == [present |-> FALSE, enable_isolation |-> "missing", spaces |-> <<>>]

\* Result types of sunbeam.core.common, and RAISED for an exception that
\* leaves the method
SKIPPED == "SKIPPED"
COMPLETED == "COMPLETED"
FAILED == "FAILED"
RAISED == "RAISED"

Call(cmd, target, arg, ok) == [cmd |-> cmd, target |-> target, arg |-> arg, ok |-> ok]

\* one invocation: the operation, its ResultType, the words of its message
\* that tell the cases apart, the calls it issued in order, the live set it
\* started from, and the spaces / ranges it read from the answers
NoOp == [op |-> "none", result |-> "none", message |-> <<>>, calls |-> <<>>,
         existing |-> {}, spaces |-> <<>>, ranges |-> <<None, None>>]

OpRecord(op, result, message, calls, existing, spaces, ranges) ==
    [op |-> op, result |-> result, message |-> message, calls |-> calls,
     existing |-> existing, spaces |-> spaces, ranges |-> ranges]

\* targets of the calls of a record that ran command cmd with outcome ok
Targets(rec, cmd, ok) ==
    {rec.calls[i].target : i \in {j \in 1..Len(rec.calls) :
                                     rec.calls[j].cmd = cmd /\ rec.calls[j].ok = ok}}

\* what is kept of the operation before the last one: which it was, its
\* result and the resources it created
NoPrev == [op |-> "none", result |-> "none", created |-> {}]

Summary(rec) ==
    [op |-> rec.op, result |-> rec.result,
     created |-> Targets(rec, "add-space", TRUE) \cup Targets(rec, "create", TRUE)]

(***************************************************************************)
(* EnsureJujuSpacesStep                                                    *)
(***************************************************************************)
\* ni = self._answers().get("network_isolation") or {}
JujuNi(bucket) ==
    IF bucket.network_isolation.present THEN bucket.network_isolation ELSE NoInner

\* mutant of JujuIsSkipResult: the spaces mapping is not looked at
JujuIsSkipResultIgnoresSpaces(bucket) ==
    IF ~FlagTruthy(JujuNi(bucket).enable_isolation)
    THEN <<SKIPPED, <<"Network isolation disabled">>>>
    ELSE <<COMPLETED, <<>>>>

\* is_skip, given that load_answers returned: <<ResultType, message>>
JujuIsSkipResult(bucket) ==
    LET ni == JujuNi(bucket) IN
    IF ~FlagTruthy(ni.enable_isolation) THEN <<SKIPPED, <<"Network isolation disabled">>>>
    ELSE IF ni.spaces = <<>> THEN <<SKIPPED, <<"No spaces specified">>>>
    ELSE <<COMPLETED, <<>>>>

\* mutants of SpaceIsLive: the test always fails / always succeeds
SpaceIsLiveNever(name, existing) == FALSE

SpaceIsLiveAlways(name, existing) == TRUE

\* mutant of SpaceIsLive: the test uses the space set the previous invocation
\* queried
SpaceIsLiveStale(name, existing) == name \in last.existing

\* "if name in existing": the membership test on the queried space set
SpaceIsLive(name, existing) == name \in existing

\* mutant of DefaultSpaceCalls: run ends without the model-config call
DefaultSpaceCallsSkipped(calls, ok) == calls

\* the model-config call that ends run
DefaultSpaceCalls(calls, ok) ==
    Append(calls, Call("model-config", "", <<DEFAULT_SPACE>>, ok))

\* mutant of HasSubnets: a space is handled whatever its subnet list
HasSubnetsAlways(subnets) == TRUE

\* "if not subnets: continue": the truthiness of the subnet list
HasSubnets(subnets) == subnets # <<>>

\* mutant of AddSpaceRaises: the error of add-space is swallowed
AddSpaceRaisesSwallowed(ok) == FALSE

\* the outer except of the loop body: a non-zero exit of add-space
\* (check=True) ends run
AddSpaceRaises(ok) == ~ok

\* the loop over spaces.items(): o.add_fail and o.upd_fail are the spaces whose
\* add-space / set-space-subnets command exits non-zero for a reason of the
\* controller; add-space also fails on a space that exists by then
RECURSIVE EnsureSpaces(_, _, _, _, _, _)
EnsureSpaces(spaces, i, existing, live, calls, o) ==
    IF i > Len(spaces) THEN
        [failed |-> FALSE, message |-> <<>>, calls |-> calls, live |-> live]
    ELSE
      LET name == spaces[i].name
          subnets == spaces[i].subnets
      IN
      IF ~HasSubnets(subnets) THEN EnsureSpaces(spaces, i + 1, existing, live, calls, o)
      ELSE IF SpaceIsLive(name, existing) THEN
          LET ok == name \notin o.upd_fail /\ name \in live IN
          EnsureSpaces(spaces, i + 1, existing, live,
                       Append(calls, Call("set-space-subnets", name, subnets, ok)), o)
      ELSE
          LET ok == name \notin o.add_fail /\ name \notin live
              c == Append(calls, Call("add-space", name, subnets, ok))
          IN
          IF AddSpaceRaises(ok) THEN
              [failed |-> TRUE, message |-> <<"Failed to ensure space", name>>,
               calls |-> c, live |-> live]
          ELSE EnsureSpaces(spaces, i + 1, existing,
                            IF ok THEN live \cup {name} ELSE live, c, o)

\* mutant of QueryFailed: run goes on after a query that raised
QueryFailedIgnored(o) == FALSE

\* the except clause around "juju spaces" and the parsing of its output
QueryFailed(o) == ~o.query_ok

\* run: o.load_ok, o.query_ok, o.default_ok are the outcomes of load_answers,
\* of "juju spaces" and of "juju model-config"; o.raced are the spaces another
\* actor adds to the model between the query and the loop
JujuRunOutcome(bucket, live, dflt, o) ==
    IF ~o.load_ok THEN
        [rec |-> OpRecord("juju.run", RAISED, <<"load_answers">>, <<>>, {}, <<>>,
                          <<None, None>>),
         live |-> live, dflt |-> dflt]
    ELSE
      LET spaces == JujuNi(bucket).spaces
          q == Call("spaces", "", <<>>, o.query_ok)
      IN
      IF QueryFailed(o) THEN
          [rec |-> OpRecord("juju.run", FAILED, <<"Unable to read model spaces">>, <<q>>,
                            {}, spaces, <<None, None>>),
           live |-> live, dflt |-> dflt]
      ELSE
        LET loop == EnsureSpaces(spaces, 1, live, live \cup o.raced, <<q>>, o) IN
        IF loop.failed THEN
            [rec |-> OpRecord("juju.run", FAILED, loop.message, loop.calls, live, spaces,
                              <<None, None>>),
             live |-> loop.live, dflt |-> dflt]
        ELSE
            [rec |-> OpRecord("juju.run", COMPLETED, <<>>,
                              DefaultSpaceCalls(loop.calls, o.default_ok),
                              live, spaces, <<None, None>>),
             live |-> loop.live,
             dflt |-> IF o.default_ok THEN "management" ELSE dflt]

\* names of the configured spaces that have subnets
Configured(spaces) ==
    {spaces[i].name : i \in {j \in 1..Len(spaces) : spaces[j].subnets # <<>>}}

\* the outcomes that matter to one run: a command can fail on a space it is
\* issued for, a race needs a configured space that is not live yet, and
\* nothing is called after load_answers or the query failed
JujuOracles(bucket, live) ==
    LET cfg == Configured(JujuNi(bucket).spaces) IN
    {o \in [load_ok : BOOLEAN, query_ok : BOOLEAN, default_ok : BOOLEAN,
            add_fail : SUBSET (cfg \ live), upd_fail : SUBSET (cfg \cap live),
            raced : SUBSET (cfg \ live)] :
        /\ Cardinality(o.add_fail \cup o.raced) = Cardinality(o.add_fail) + Cardinality(o.raced)
        /\ ~(o.load_ok /\ o.query_ok) =>
              /\ o.load_ok \/ o.query_ok
              /\ o.default_ok /\ o.add_fail = {} /\ o.upd_fail = {} /\ o.raced = {}}

\* the run in which every collaborator call succeeds and no other actor
\* touches the model
FaultFree ==
    [load_ok |-> TRUE, query_ok |-> TRUE, default_ok |-> TRUE,
     add_fail |-> {}, upd_fail |-> {}, raced |-> {}]

JujuIsSkip ==
    /\ \E load_ok \in BOOLEAN :
          LET r == IF load_ok THEN JujuIsSkipResult(ni_bucket)
                   ELSE <<RAISED, <<"load_answers">>>> IN
          last' = OpRecord("juju.is_skip", r[1], r[2], <<>>, {},
                           IF load_ok THEN JujuNi(ni_bucket).spaces ELSE <<>>,
                           <<None, None>>)
    /\ prev' = Summary(last)
    /\ UNCHANGED <<ni_bucket, addons_bucket, snap_json, live_spaces, default_space,
                   k8s_objs, live_apps, app_config, kube>>

JujuRun ==
    /\ \E o \in JujuOracles(ni_bucket, live_spaces) :
          LET out == JujuRunOutcome(ni_bucket, live_spaces, default_space, o) IN
          /\ last' = out.rec
          /\ live_spaces' = out.live
          /\ default_space' = out.dflt
    /\ prev' = Summary(last)
    /\ UNCHANGED <<ni_bucket, addons_bucket, snap_json, k8s_objs, live_apps,
                   app_config, kube>>

(***************************************************************************)
(* EnsureMetalLBIsolationStep                                              *)
(***************************************************************************)
PUBLIC_POOL_NAME == "sunbeam-public-pool"
INTERNAL_POOL_NAME == "sunbeam-internal-pool"
PUBLIC_ADV_NAME == "sunbeam-public-adv"
INTERNAL_ADV_NAME == "sunbeam-internal-adv"

ResNames == {PUBLIC_POOL_NAME, INTERNAL_POOL_NAME, PUBLIC_ADV_NAME, INTERNAL_ADV_NAME}

\* TRAEFIK_APPS, and its keys in the order the dict literal lists them
TRAEFIK_APPS ==
    [a \in {"traefik", "traefik-public", "traefik-rgw"} |->
        IF a = "traefik" THEN INTERNAL_POOL_NAME ELSE PUBLIC_POOL_NAME]

TraefikAppOrder == <<"traefik", "traefik-public", "traefik-rgw">>

\* applications a model can hold: the Traefik ones and one that is no target
Apps == DOMAIN TRAEFIK_APPS \cup {"keystone"}

RangeVals == {None, "", "10.1.0.0/24", "10.1.1.0/24, 10.1.2.0/24", "10.2.0.1-10.2.0.9"}

\* mutant of RangesFromAnswers: the shared range is the fallback of the
\* public side only
RangesPublicFallbackOnly(addons, bucket) ==
    LET single == addons.loadbalancer
        pub == IF ~StrTruthy(addons.lb_public_pool) /\ StrTruthy(single)
               THEN single ELSE addons.lb_public_pool
    IN IF ~FlagTruthy(bucket.enable_isolation) THEN <<None, None>>
       ELSE <<pub, addons.lb_internal_pool>>

\* _ranges_from_answers, given that both load_answers calls returned
RangesFromAnswers(addons, bucket) ==
    LET single == addons.loadbalancer
        pub == IF ~StrTruthy(addons.lb_public_pool) /\ StrTruthy(single)
               THEN single ELSE addons.lb_public_pool
        internal == IF ~StrTruthy(addons.lb_internal_pool) /\ StrTruthy(single)
                    THEN single ELSE addons.lb_internal_pool
        enable_iso == FlagTruthy(bucket.enable_isolation)
    IN IF ~enable_iso THEN <<None, None>> ELSE <<pub, internal>>

\* mutant of EnsureResource: no replace after a create that raised
EnsureResourceCreateOnly(name, arg, objs, k, calls, o) ==
    LET created == name \notin objs /\ name \notin o.create_fail IN
    IF k = None THEN
        [failed |-> TRUE, message |-> <<"Failed to apply", name>>, calls |-> calls,
         objs |-> objs]
    ELSE
        [failed |-> ~created,
         message |-> IF created THEN <<>> ELSE <<"Failed to apply", name>>,
         calls |-> Append(calls, Call("create", name, arg, created)),
         objs |-> IF created THEN objs \cup {name} ELSE objs]

\* mutant of EnsureResource: a replace that raised is tried once more
EnsureResourceRetrying(name, arg, objs, k, calls, o) ==
    LET created == name \notin objs /\ name \notin o.create_fail
        replaced == name \in objs /\ name \notin o.replace_fail
        c1 == Append(calls, Call("create", name, arg, created))
        c2 == Append(c1, Call("replace", name, arg, replaced))
    IN IF k = None THEN
           [failed |-> TRUE, message |-> <<"Failed to apply", name>>, calls |-> calls,
            objs |-> objs]
       ELSE IF created THEN
           [failed |-> FALSE, message |-> <<>>, calls |-> c1, objs |-> objs \cup {name}]
       ELSE IF replaced THEN
           [failed |-> FALSE, message |-> <<>>, calls |-> c2, objs |-> objs]
       ELSE [failed |-> TRUE, message |-> <<"Failed to apply", name>>,
             calls |-> Append(c2, Call("replace", name, arg, FALSE)), objs |-> objs]

\* _ensure_pool and _ensure_l2adv: create, and replace when create raised.
\* create raises on a resource that exists, replace on one that does not;
\* o.create_fail and o.replace_fail are the resources whose call raises for
\* another reason. With self.kube None both attribute lookups raise and no
\* call is issued
EnsureResource(name, arg, objs, k, calls, o) ==
    LET created == name \notin objs /\ name \notin o.create_fail
        replaced == name \in objs /\ name \notin o.replace_fail
        c1 == Append(calls, Call("create", name, arg, created))
    IN IF k = None THEN
           [failed |-> TRUE, message |-> <<"Failed to apply", name>>, calls |-> calls,
            objs |-> objs]
       ELSE IF created THEN
           [failed |-> FALSE, message |-> <<>>, calls |-> c1, objs |-> objs \cup {name}]
       ELSE [failed |-> ~replaced,
             message |-> IF replaced THEN <<>> ELSE <<"Failed to apply", name>>,
             calls |-> Append(c1, Call("replace", name, arg, replaced)),
             objs |-> objs]

\* mutant of EnsureRole: the error of _ensure_pool is swallowed
EnsureRoleSwallowsPoolError(pool, adv, range, objs, k, calls, o) ==
    LET p == EnsureResource(pool, <<range>>, objs, k, calls, o) IN
    EnsureResource(adv, <<pool>>, p.objs, k, p.calls, o)

\* one role of run: the pool, then its advertisement
EnsureRole(pool, adv, range, objs, k, calls, o) ==
    LET p == EnsureResource(pool, <<range>>, objs, k, calls, o) IN
    IF p.failed THEN p
    ELSE EnsureResource(adv, <<pool>>, p.objs, k, p.calls, o)

\* mutant of AppIsLive: every application of the table counts as deployed
AppIsLiveAlways(app, existing) == TRUE

\* "if app not in existing: continue": the presence test on the queried names
AppIsLive(app, existing) == app \in existing

\* the loop of _annotate_traefik_services_via_juju over TRAEFIK_APPS.items()
RECURSIVE AnnotateApps(_, _, _, _, _)
AnnotateApps(i, existing, cfg, calls, o) ==
    IF i > Len(TraefikAppOrder) THEN
        [failed |-> FALSE, message |-> <<>>, calls |-> calls, cfg |-> cfg]
    ELSE
      LET app == TraefikAppOrder[i]
          pool == TRAEFIK_APPS[app]
      IN
      IF ~AppIsLive(app, existing) THEN AnnotateApps(i + 1, existing, cfg, calls, o)
      ELSE IF app \in o.config_fail THEN
          [failed |-> TRUE, message |-> <<"juju config", app>>,
           calls |-> Append(calls, Call("config", app, <<pool>>, FALSE)), cfg |-> cfg]
      ELSE AnnotateApps(i + 1, existing, [cfg EXCEPT ![app] = pool],
                        Append(calls, Call("config", app, <<pool>>, TRUE)), o)

\* _annotate_traefik_services_via_juju: o.apps_ok is the outcome of
\* JujuController.load and get_application_names
AnnotateTraefik(apps, cfg, calls, o) ==
    LET q == Append(calls, Call("get_application_names", "", <<>>, o.apps_ok)) IN
    IF ~o.apps_ok THEN
        [failed |-> TRUE, message |-> <<"get_application_names">>, calls |-> q, cfg |-> cfg]
    ELSE AnnotateApps(1, apps, cfg, q, o)

\* is_skip: o.kube_ok is the outcome of get_kube_client (KubeClientError when
\* FALSE), o.load_ok the outcome of load_answers
PoolIsSkipOutcome(addons, bucket, k, o) ==
    IF ~o.kube_ok THEN
        [rec |-> OpRecord("pool.is_skip", FAILED, <<"KubeClientError">>, <<>>, {}, <<>>,
                          <<None, None>>),
         kube |-> k]
    ELSE IF ~o.load_ok THEN
        [rec |-> OpRecord("pool.is_skip", RAISED, <<"load_answers">>, <<>>, {}, <<>>,
                          <<None, None>>),
         kube |-> "client"]
    ELSE
      LET r == RangesFromAnswers(addons, bucket) IN
      [rec |-> OpRecord("pool.is_skip",
                        IF ~StrTruthy(r[1]) /\ ~StrTruthy(r[2]) THEN SKIPPED ELSE COMPLETED,
                        <<>>, <<>>, {}, <<>>, r),
       kube |-> "client"]

\* run: every exception is caught and turned into FAILED
PoolRunOutcome(addons, bucket, objs, apps, cfg, k, o) ==
    LET rec(x, r) ==
            OpRecord("pool.run", IF x.failed THEN FAILED ELSE COMPLETED, x.message,
                     x.calls, objs, <<>>, r)
    IN
    IF ~o.load_ok THEN
        [rec |-> rec([failed |-> TRUE, message |-> <<"load_answers">>, calls |-> <<>>],
                     <<None, None>>),
         objs |-> objs, cfg |-> cfg]
    ELSE
      LET r == RangesFromAnswers(addons, bucket)
          pub == IF StrTruthy(r[1])
                 THEN EnsureRole(PUBLIC_POOL_NAME, PUBLIC_ADV_NAME, r[1], objs, k, <<>>, o)
                 ELSE [failed |-> FALSE, message |-> <<>>, calls |-> <<>>, objs |-> objs]
      IN
      IF pub.failed THEN [rec |-> rec(pub, r), objs |-> pub.objs, cfg |-> cfg]
      ELSE
        LET int == IF StrTruthy(r[2])
                   THEN EnsureRole(INTERNAL_POOL_NAME, INTERNAL_ADV_NAME, r[2],
                                   pub.objs, k, pub.calls, o)
                   ELSE pub
        IN
        IF int.failed THEN [rec |-> rec(int, r), objs |-> int.objs, cfg |-> cfg]
        ELSE
          LET ann == AnnotateTraefik(apps, cfg, int.calls, o) IN
          [rec |-> rec(ann, r), objs |-> int.objs, cfg |-> ann.cfg]

PoolSkipOracles == [kube_ok : BOOLEAN, load_ok : BOOLEAN]

\* the outcomes that matter to one run: create raises anyway on a resource
\* that exists and replace on one that does not, config is issued for live
\* applications only, and run stops at the first call that raises for good
PoolOracles(objs, apps) ==
    {o \in [load_ok : BOOLEAN, apps_ok : BOOLEAN,
            create_fail : SUBSET (ResNames \ objs),
            replace_fail : SUBSET (ResNames \cap objs),
            config_fail : SUBSET (DOMAIN TRAEFIK_APPS \cap apps)] :
        /\ Cardinality(o.create_fail \cup o.replace_fail \cup o.config_fail) <= 1
        /\ ~o.load_ok => o.apps_ok /\ o.create_fail = {} /\ o.replace_fail = {}
        /\ ~(o.load_ok /\ o.apps_ok) => o.config_fail = {}}

PoolIsSkip ==
    /\ \E o \in PoolSkipOracles :
          LET out == PoolIsSkipOutcome(addons_bucket, ni_bucket, kube, o) IN
          /\ last' = out.rec
          /\ kube' = out.kube
    /\ prev' = Summary(last)
    /\ UNCHANGED <<ni_bucket, addons_bucket, snap_json, live_spaces, default_space,
                   k8s_objs, live_apps, app_config>>

PoolRun ==
    /\ \E o \in PoolOracles(k8s_objs, live_apps) :
          LET out == PoolRunOutcome(addons_bucket, ni_bucket, k8s_objs, live_apps,
                                    app_config, kube, o) IN
          /\ last' = out.rec
          /\ k8s_objs' = out.objs
          /\ app_config' = out.cfg
    /\ prev' = Summary(last)
    /\ UNCHANGED <<ni_bucket, addons_bucket, snap_json, live_spaces, default_space,
                   live_apps, kube>>

(***************************************************************************)
(* import_network_isolation_answers                                        *)
(***************************************************************************)
\* contents of SNAP_JSON: no file, text json.loads rejects, a JSON value that
\* is no object, or an object with enable_isolation and spaces
NoFile == [kind |-> "absent", enable_isolation |-> "missing", spaces |-> <<>>]
BadFile == [kind |-> "invalid", enable_isolation |-> "missing", spaces |-> <<>>]
ListFile == [kind |-> "nonobject", enable_isolation |-> "missing", spaces |-> <<>>]

SnapFiles ==
    {NoFile, BadFile, ListFile}
      \cup [kind : {"object"}, enable_isolation : Flags, spaces : SpacesMappings]

\* what save_answers(client, NETWORK_ISOLATION_KEY, {"network_isolation": data}) stores
SavedBucket(data) ==
    [enable_isolation |-> "missing",
     network_isolation |-> [present |-> TRUE,
                            enable_isolation |-> data.enable_isolation,
                            spaces |-> data.spaces]]

\* import_network_isolation_answers: save_ok is the outcome of save_answers;
\* the result is "EMPTY" for {} and "DATA" for the parsed data
ImportOutcome(file, bucket, save_ok) ==
    LET rec(result, calls) ==
            OpRecord("import", result, <<>>, calls, {}, <<>>, <<None, None>>)
    IN
    IF file.kind = "absent" THEN [rec |-> rec("EMPTY", <<>>), bucket |-> bucket]
    ELSE IF file.kind = "invalid" THEN [rec |-> rec("EMPTY", <<>>), bucket |-> bucket]
    ELSE IF file.kind # "object" THEN [rec |-> rec(RAISED, <<>>), bucket |-> bucket]
    ELSE IF ~FlagTruthy(file.enable_isolation) THEN
        [rec |-> rec("EMPTY", <<>>), bucket |-> bucket]
    ELSE IF ~save_ok THEN
        [rec |-> rec(RAISED, <<Call("save_answers", NETWORK_ISOLATION_KEY, <<>>, FALSE)>>),
         bucket |-> bucket]
    ELSE [rec |-> rec("DATA", <<Call("save_answers", NETWORK_ISOLATION_KEY, <<>>, TRUE)>>),
          bucket |-> SavedBucket(file)]

Import ==
    /\ \E save_ok \in BOOLEAN :
          LET out == ImportOutcome(snap_json, ni_bucket, save_ok) IN
          /\ last' = out.rec
          /\ ni_bucket' = out.bucket
    /\ prev' = Summary(last)
    /\ UNCHANGED <<addons_bucket, snap_json, live_spaces, default_space, k8s_objs,
                   live_apps, app_config, kube>>

(***************************************************************************)
(* The two run methods as functions of the whole deployment                *)
(***************************************************************************)
\* the answer store and the backends, as one record
World ==
    [ni |-> ni_bucket, addons |-> addons_bucket, spaces |-> live_spaces,
     dflt |-> default_space, objs |-> k8s_objs, apps |-> live_apps,
     cfg |-> app_config, kube |-> kube]

\* EnsureJujuSpacesStep.run on a deployment: what it returns and what it leaves
JujuRunOn(w, o) ==
    LET out == JujuRunOutcome(w.ni, w.spaces, w.dflt, o) IN
    [rec |-> out.rec, w |-> [w EXCEPT !.spaces = out.live, !.dflt = out.dflt]]

\* mutant of PoolRunOn: the Traefik applications are annotated only in a
\* model whose default space is management
PoolRunOnNeedsDefaultSpace(w, o) ==
    LET out == PoolRunOutcome(w.addons, w.ni, w.objs, w.apps, w.cfg, w.kube, o) IN
    [rec |-> out.rec,
     w |-> [w EXCEPT !.objs = out.objs,
                     !.cfg = IF w.dflt = "management" THEN out.cfg ELSE w.cfg]]

\* EnsureMetalLBIsolationStep.run on a deployment
PoolRunOn(w, o) ==
    LET out == PoolRunOutcome(w.addons, w.ni, w.objs, w.apps, w.cfg, w.kube, o) IN
    [rec |-> out.rec, w |-> [w EXCEPT !.objs = out.objs, !.cfg = out.cfg]]

(***************************************************************************)
(* Initial states and specifications                                       *)
(***************************************************************************)
NiBuckets ==
    [enable_isolation : Flags,
     network_isolation : {NoInner} \cup
         [present : {TRUE}, enable_isolation : Flags, spaces : SpacesMappings]]

AddonsBuckets ==
    [lb_public_pool : RangeVals, lb_internal_pool : RangeVals, loadbalancer : RangeVals]

EmptyBucket == [enable_isolation |-> "missing", network_isolation |-> NoInner]

NoAddons == [lb_public_pool |-> None, lb_internal_pool |-> None, loadbalancer |-> None]

NoAppConfig == [a \in Apps |-> None]

\* the steps are constructed (self.kube = None) and nothing has run
Fresh ==
    /\ kube = None
    /\ last = NoOp
    /\ prev = NoPrev
    /\ default_space = "alpha"
    /\ app_config = NoAppConfig

\* EnsureJujuSpacesStep against any answers and any model
InitSpaces ==
    /\ Fresh
    /\ ni_bucket \in {b \in NiBuckets : b.enable_isolation = "missing"
                                          /\ b.network_isolation.enable_isolation # "missing"}
    /\ addons_bucket = NoAddons
    /\ snap_json = NoFile
    /\ live_spaces \in SUBSET SpaceNames
    /\ k8s_objs = {}
    /\ live_apps = {}

NextSpaces == JujuIsSkip \/ JujuRun

SpecSpaces == InitSpaces /\ [][NextSpaces]_vars

\* EnsureMetalLBIsolationStep against any ranges, any cluster and any model
InitPools ==
    /\ Fresh
    /\ ni_bucket \in {b \in NiBuckets : b.network_isolation = NoInner
                                          /\ b.enable_isolation # "missing"}
    /\ addons_bucket \in [lb_public_pool : {None, "10.1.0.0/24"},
                          lb_internal_pool : {None, "10.1.1.0/24, 10.1.2.0/24"},
                          loadbalancer : {None, "10.2.0.1-10.2.0.9"}]
    /\ snap_json = NoFile
    /\ live_spaces = {}
    /\ k8s_objs \in {r \in SUBSET ResNames :
                        /\ PUBLIC_ADV_NAME \in r => PUBLIC_POOL_NAME \in r
                        /\ INTERNAL_ADV_NAME \in r => INTERNAL_POOL_NAME \in r}
    /\ live_apps \in {{"keystone"}, {"keystone", "traefik"},
                      {"keystone", "traefik-public", "traefik-rgw"}, Apps}

NextPools == PoolIsSkip \/ PoolRun

SpecPools == InitPools /\ [][NextPools]_vars

\* _ranges_from_answers on any content of the two buckets it reads
InitRanges ==
    /\ Fresh
    /\ ni_bucket \in {b \in NiBuckets :
                        b.network_isolation \in
                            {NoInner, [present |-> TRUE, enable_isolation |-> "true",
                                       spaces |-> <<>>]}}
    /\ addons_bucket \in AddonsBuckets
    /\ snap_json = NoFile
    /\ live_spaces = {}
    /\ k8s_objs = {}
    /\ live_apps = {}

NextRanges == PoolIsSkip

SpecRanges == InitRanges /\ [][NextRanges]_vars

\* the importer on any file, followed by the two applicability checks
InitImport ==
    /\ Fresh
    /\ ni_bucket \in {EmptyBucket,
                      [enable_isolation |-> "true", network_isolation |-> NoInner]}
    /\ addons_bucket \in {NoAddons, [NoAddons EXCEPT !.loadbalancer = "10.1.0.0/24"]}
    /\ snap_json \in SnapFiles
    /\ live_spaces = {}
    /\ k8s_objs = {}
    /\ live_apps = {}

NextImport == Import \/ JujuIsSkip \/ PoolIsSkip

SpecImport == InitImport /\ [][NextImport]_vars

\* spaces mappings of one deployment
OneSpace == <<[name |-> "management", subnets |-> <<"10.0.0.0/24">>]>>

TwoSpaces == <<[name |-> "data", subnets |-> <<"10.0.0.0/24">>],
               [name |-> "management", subnets |-> <<"10.0.0.0/24">>]>>

\* both run methods on one deployment that has spaces, ranges and applications
InitOrder ==
    /\ Fresh
    /\ ni_bucket \in {b \in NiBuckets :
                        /\ b.enable_isolation \in {"missing", "true"}
                        /\ b.network_isolation.present
                        /\ b.network_isolation.enable_isolation = "true"
                        /\ b.network_isolation.spaces = TwoSpaces}
    /\ addons_bucket = [NoAddons EXCEPT !.loadbalancer = "10.2.0.1-10.2.0.9"]
    /\ snap_json = NoFile
    /\ live_spaces = {}
    /\ k8s_objs \in {{}, {PUBLIC_POOL_NAME}}
    /\ live_apps = {"keystone", "traefik"}

NextOrder == PoolIsSkip \/ JujuRun \/ PoolRun

SpecOrder == InitOrder /\ [][NextOrder]_vars

\* both steps and the importer on one deployment
Init ==
    /\ Fresh
    /\ ni_bucket \in {b \in NiBuckets :
                        /\ b.enable_isolation # "false"
                        /\ b.network_isolation.spaces \in {<<>>, OneSpace}
                        /\ b.network_isolation.enable_isolation # "missing"}
    /\ addons_bucket \in {NoAddons, [NoAddons EXCEPT !.loadbalancer = "10.1.0.0/24"]}
    /\ snap_json \in {NoFile,
                      [kind |-> "object", enable_isolation |-> "true", spaces |-> OneSpace]}
    /\ live_spaces = {}
    /\ k8s_objs = {}
    /\ live_apps = {"traefik", "keystone"}

Next == Import \/ JujuIsSkip \/ JujuRun \/ PoolIsSkip \/ PoolRun

Spec == Init /\ [][Next]_vars

(***************************************************************************)
(* Properties                                                              *)
(***************************************************************************)
\* indices of the calls of a record that ran command cmd on target
CallsOf(rec, cmd, target) ==
    {i \in 1..Len(rec.calls) : rec.calls[i].cmd = cmd /\ rec.calls[i].target = target}

\* commands that change a backend
Mutations == {"add-space", "set-space-subnets", "model-config", "create", "replace", "config"}

Mutated(rec) == \E i \in 1..Len(rec.calls) : rec.calls[i].cmd \in Mutations

\* the enable flag is true neither where EnsureJujuSpacesStep reads it nor
\* where EnsureMetalLBIsolationStep reads it
Disabled ==
    /\ ~FlagTruthy(JujuNi(ni_bucket).enable_isolation)
    /\ ~FlagTruthy(ni_bucket.enable_isolation)

\* "juju spaces" of the invocation returned the live space set
QueryOk(rec) == \E i \in CallsOf(rec, "spaces", "") : rec.calls[i].ok

\* positions in the spaces mapping of the spaces that have subnets
WithSubnets(rec) == {i \in 1..Len(rec.spaces) : rec.spaces[i].subnets # <<>>}

\* C1: with isolation disabled, is_skip of both steps returns SKIPPED and
\* calls no backend, whether or not the load-balancer backend is available
\* (stated for the invocations in which the answer store loads).
C1_DisabledIsSkipped ==
    (last.op \in {"juju.is_skip", "pool.is_skip"} /\ Disabled /\ last.result # RAISED)
        => last.result = SKIPPED /\ last.calls = <<>>

\* C9: with isolation disabled, run of either step issues no backend
\* mutation, whatever spaces and ranges are configured.
C9_DisabledRunIsNoOp ==
    (last.op \in {"juju.run", "pool.run"} /\ Disabled) => ~Mutated(last)

\* C10: is_skip and run of both steps end by returning a Result, never by an
\* exception that leaves the method, whichever collaborator fails.
C10_NeverRaises ==
    last.op \in {"juju.is_skip", "juju.run", "pool.is_skip", "pool.run"}
        => last.result \in {SKIPPED, COMPLETED, FAILED}

\* what C2 concludes about two successive runs, the second one primed
C2_BothCompletedSecondUpdates ==
    /\ last.result = COMPLETED
    /\ last'.result = COMPLETED
    /\ \A n \in Targets(last, "add-space", TRUE) :
          /\ CallsOf(last', "add-space", n) = {}
          /\ CallsOf(last', "set-space-subnets", n) # {}

\* run invoked twice in succession and returning both times, with unchanged
\* configuration, the live space set after the first run holding every space
\* the first run created
C2_TwoRuns ==
    /\ last.op = "juju.run" /\ last.result # RAISED
    /\ last'.op = "juju.run" /\ last'.result # RAISED
    /\ ni_bucket' = ni_bucket
    /\ Targets(last, "add-space", TRUE) \subseteq live_spaces

\* C2 as claimed: any two such runs return COMPLETED, and the second one
\* issues set-space-subnets and no add-space for every space the first created.
C2_AsClaimed == [][C2_TwoRuns => C2_BothCompletedSecondUpdates]_vars

\* C2: two successive runs with unchanged configuration, in both of which the
\* live-space query succeeds and in the first of which no add-space command
\* fails, return COMPLETED, and the second one issues set-space-subnets and
\* no add-space for every space the first one created.
C2_SpaceIdempotence ==
    [][(/\ C2_TwoRuns
        /\ QueryOk(last) /\ QueryOk(last')
        /\ Targets(last, "add-space", FALSE) = {})
            => C2_BothCompletedSecondUpdates]_vars

C2_Witness ==
    /\ prev.op = "juju.run" /\ prev.result = COMPLETED /\ prev.created # {}
    /\ last.op = "juju.run" /\ last.result = COMPLETED
    /\ \A n \in prev.created :
          /\ CallsOf(last, "add-space", n) = {}
          /\ CallsOf(last, "set-space-subnets", n) # {}

\* what C4 says of the space at position i of the mapping
C4_SpaceHandled(rec, i) ==
    LET n == rec.spaces[i].name IN
    /\ n \notin rec.existing => Cardinality(CallsOf(rec, "add-space", n)) = 1
    /\ n \in rec.existing => CallsOf(rec, "set-space-subnets", n) # {}

\* a failed set-space-subnets leaves the result COMPLETED
C4_UpdateFailureIgnored(rec) ==
    (Targets(rec, "set-space-subnets", FALSE) # {} /\ Targets(rec, "add-space", FALSE) = {})
        => rec.result = COMPLETED

\* C4 as claimed: every configured space with subnets gets exactly one
\* add-space when it is not in the queried live set and a set-space-subnets
\* when it is.
C4_AsClaimed ==
    (last.op = "juju.run" /\ QueryOk(last)) =>
        /\ \A i \in WithSubnets(last) : C4_SpaceHandled(last, i)
        /\ C4_UpdateFailureIgnored(last)

\* an add-space call failed for a space before position i
C4_AddFailedBefore(rec, i) ==
    \E j \in 1..(i - 1) : rec.spaces[j].name \in Targets(rec, "add-space", FALSE)

\* C4: every configured space with subnets that run reaches (no add-space
\* failed for an earlier space) gets exactly one add-space when it is not in
\* the queried live set and a set-space-subnets when it is, and a failure of
\* set-space-subnets leaves the result COMPLETED; a space after the first
\* failed add-space gets no call.
C4_CreateOrUpdatePerSpace ==
    (last.op = "juju.run" /\ QueryOk(last)) =>
        /\ \A i \in WithSubnets(last) :
              IF C4_AddFailedBefore(last, i)
              THEN /\ CallsOf(last, "add-space", last.spaces[i].name) = {}
                   /\ CallsOf(last, "set-space-subnets", last.spaces[i].name) = {}
              ELSE C4_SpaceHandled(last, i)
        /\ C4_UpdateFailureIgnored(last)

C4_Witness ==
    /\ last.op = "juju.run" /\ QueryOk(last) /\ last.result = COMPLETED
    /\ Targets(last, "add-space", TRUE) # {}
    /\ Targets(last, "set-space-subnets", FALSE) # {}

\* C8 as claimed: every run that gets to the per-space calls attempts the
\* model-config default-space command, whatever their outcome.
C8_AsClaimed ==
    (last.op = "juju.run" /\ QueryOk(last)) => CallsOf(last, "model-config", "") # {}

\* C8: a run in which the live-space query succeeds and no add-space call
\* fails attempts the model-config default-space command, once and as its
\* last call, whatever the outcome of the set-space-subnets calls, and returns
\* COMPLETED whether or not that command fails; a run that does not return
\* COMPLETED has not attempted it.
C8_DefaultSpaceAfterLoop ==
    last.op = "juju.run" =>
        /\ (QueryOk(last) /\ Targets(last, "add-space", FALSE) = {}) =>
              /\ CallsOf(last, "model-config", "") = {Len(last.calls)}
              /\ last.result = COMPLETED
        /\ last.result # COMPLETED => CallsOf(last, "model-config", "") = {}

C8_Witness ==
    /\ last.op = "juju.run" /\ last.result = COMPLETED
    /\ Targets(last, "set-space-subnets", FALSE) # {}
    /\ \E i \in CallsOf(last, "model-config", "") : ~last.calls[i].ok

\* the advertisement of a pool
AdvOf(pool) == IF pool = PUBLIC_POOL_NAME THEN PUBLIC_ADV_NAME ELSE INTERNAL_ADV_NAME

\* create and the fallback replace of a resource both failed in the invocation
BothFailed(rec, name) ==
    /\ \E i \in CallsOf(rec, "create", name) : ~rec.calls[i].ok
    /\ \E i \in CallsOf(rec, "replace", name) : ~rec.calls[i].ok

\* C5: when create and the fallback replace of a pool both fail, run returns
\* FAILED and issues no create or replace of that pool's advertisement and no
\* juju config call that names that pool.
C5_PoolFailureStopsRole ==
    last.op = "pool.run" =>
        \A pool \in {PUBLIC_POOL_NAME, INTERNAL_POOL_NAME} :
            BothFailed(last, pool) =>
                /\ last.result = FAILED
                /\ \A i \in 1..Len(last.calls) :
                      /\ last.calls[i].target # AdvOf(pool)
                      /\ last.calls[i].cmd = "config" => last.calls[i].arg # <<pool>>

C5_Witness ==
    /\ last.op = "pool.run" /\ last.result = FAILED
    /\ BothFailed(last, INTERNAL_POOL_NAME)
    /\ PUBLIC_ADV_NAME \in Targets(last, "create", TRUE)
    /\ live_apps \cap DOMAIN TRAEFIK_APPS # {}

Pools == {PUBLIC_POOL_NAME, INTERNAL_POOL_NAME}

\* no call of the primed invocation fails but a create of a resource that
\* exists, and its answers load
C3_SecondRunFaultFree ==
    /\ last'.message # <<"load_answers">>
    /\ \A i \in 1..Len(last'.calls) :
          ~last'.calls[i].ok =>
              last'.calls[i].cmd = "create" /\ last'.calls[i].target \in k8s_objs

\* C3 as claimed: run issues create only for a resource that does not exist
\* in the cluster, and a run after a successful run (no call failing for
\* another reason than the resource existing) returns COMPLETED and issues
\* replace and no create for every pool the first one created.
C3_AsClaimed ==
    [][last'.op = "pool.run" =>
        /\ \A i \in 1..Len(last'.calls) :
              last'.calls[i].cmd = "create" => last'.calls[i].target \notin k8s_objs
        /\ (last.op = "pool.run" /\ last.result = COMPLETED /\ C3_SecondRunFaultFree) =>
              /\ last'.result = COMPLETED
              /\ \A p \in Targets(last, "create", TRUE) \cap Pools :
                    /\ CallsOf(last', "replace", p) # {}
                    /\ CallsOf(last', "create", p) = {}]_vars

\* C3: run issues create for a pool or advertisement whether or not it
\* exists; the create succeeds only on a resource that does not exist, and
\* replace is issued only right after the create of the same resource failed.
\* A run after a successful run with unchanged configuration, in which no call
\* fails but the creates of existing resources, returns COMPLETED and for
\* every pool the first run created issues a create that fails and then a
\* replace that succeeds.
C3_CreateThenReplace ==
    [][last'.op = "pool.run" =>
        /\ \A i \in 1..Len(last'.calls) :
              LET c == last'.calls[i] IN
              /\ (c.cmd = "create" /\ c.ok) => c.target \notin k8s_objs
              /\ c.cmd = "replace" =>
                    /\ i > 1
                    /\ last'.calls[i - 1].cmd = "create"
                    /\ last'.calls[i - 1].target = c.target
                    /\ ~last'.calls[i - 1].ok
        /\ (/\ last.op = "pool.run" /\ last.result = COMPLETED
            /\ ni_bucket' = ni_bucket /\ addons_bucket' = addons_bucket
            /\ C3_SecondRunFaultFree) =>
              /\ last'.result = COMPLETED
              /\ \A p \in Targets(last, "create", TRUE) \cap Pools :
                    /\ \E i \in CallsOf(last', "create", p) : ~last'.calls[i].ok
                    /\ \E i \in CallsOf(last', "replace", p) : last'.calls[i].ok]_vars

C3_Witness ==
    /\ prev.op = "pool.run" /\ prev.result = COMPLETED /\ prev.created \cap Pools # {}
    /\ last.op = "pool.run" /\ last.result = COMPLETED
    /\ \A p \in prev.created \cap Pools :
          /\ \E i \in CallsOf(last, "create", p) : ~last.calls[i].ok
          /\ \E i \in CallsOf(last, "replace", p) : last.calls[i].ok

\* only the shared range of the k8s-addons answers is set
OnlyShared(a) ==
    /\ StrTruthy(a.loadbalancer)
    /\ ~StrTruthy(a.lb_public_pool)
    /\ ~StrTruthy(a.lb_internal_pool)

\* is_skip returned, so that last.ranges is what _ranges_from_answers returned
RangesResolved == last.op = "pool.is_skip" /\ last.result \in {SKIPPED, COMPLETED}

\* C7 as claimed: with only the shared range set, both resolved ranges are
\* the shared range, whatever else the answer store holds.
C7_AsClaimed ==
    (RangesResolved /\ OnlyShared(addons_bucket))
        => last.ranges = <<addons_bucket.loadbalancer, addons_bucket.loadbalancer>>

\* C7: with only the shared range set, both resolved ranges are the shared
\* range when the enable_isolation flag at the top level of the
\* network_isolation answers is true, and both are None when it is not.
C7_SharedRangeForBoth ==
    (RangesResolved /\ OnlyShared(addons_bucket)) =>
        last.ranges = IF FlagTruthy(ni_bucket.enable_isolation)
                      THEN <<addons_bucket.loadbalancer, addons_bucket.loadbalancer>>
                      ELSE <<None, None>>

C7_Witness ==
    /\ RangesResolved /\ OnlyShared(addons_bucket)
    /\ addons_bucket.lb_public_pool = "" /\ addons_bucket.lb_internal_pool = None
    /\ last.ranges = <<addons_bucket.loadbalancer, addons_bucket.loadbalancer>>
    /\ last.result = COMPLETED

\* the file is a JSON object whose enable_isolation is true
ImportEnabled == snap_json.kind = "object" /\ FlagTruthy(snap_json.enable_isolation)

\* C6: the importer writes to the answer store only when the file exists,
\* parses and has enable_isolation true; in every other case it returns an
\* empty result and leaves the answer store unchanged.
C6_ImportWritesOnlyWhenEnabled ==
    [][last'.op = "import" =>
        /\ (ni_bucket' # ni_bucket \/ last'.calls # <<>>) => ImportEnabled
        /\ ~ImportEnabled =>
              /\ last'.result = "EMPTY"
              /\ ni_bucket' = ni_bucket]_vars

\* the part of C6 about the answer store alone
C6_StoreFrame ==
    [][last'.op = "import" =>
        /\ (ni_bucket' # ni_bucket \/ last'.calls # <<>>) => ImportEnabled
        /\ ~ImportEnabled => ni_bucket' = ni_bucket]_vars

\* C11: for every configured space whose subnet list is empty, run issues
\* neither an add-space nor a set-space-subnets call for that space, whether
\* or not the space is in the live set.
C11_EmptySubnetsNoCall ==
    last.op = "juju.run" =>
        \A i \in 1..Len(last.spaces) :
            last.spaces[i].subnets = <<>> =>
                /\ CallsOf(last, "add-space", last.spaces[i].name) = {}
                /\ CallsOf(last, "set-space-subnets", last.spaces[i].name) = {}

C11_Witness ==
    /\ last.op = "juju.run" /\ last.result = COMPLETED /\ Len(last.spaces) = 2
    /\ \E i, j \in 1..Len(last.spaces) :
          /\ last.spaces[i].subnets = <<>> /\ last.spaces[i].name \in last.existing
          /\ last.spaces[j].subnets = <<>> /\ last.spaces[j].name \notin last.existing
    /\ CallsOf(last, "model-config", "") # {}

\* the backends of a deployment
Backend(w) ==
    [spaces |-> w.spaces, dflt |-> w.dflt, objs |-> w.objs, cfg |-> w.cfg]

\* C12: from the same answer store and the same live backend state, and with
\* the same outcome of every collaborator call, EnsureJujuSpacesStep.run then
\* EnsureMetalLBIsolationStep.run return the same two results and leave the
\* same spaces, default-space, pools, advertisements and application
\* annotations as the two runs in the opposite order.
C12_OrderInsensitive ==
    \A oj \in JujuOracles(ni_bucket, live_spaces), op \in PoolOracles(k8s_objs, live_apps) :
        LET j1 == JujuRunOn(World, oj)
            p2 == PoolRunOn(j1.w, op)
            p1 == PoolRunOn(World, op)
            j2 == JujuRunOn(p1.w, oj)
        IN /\ j1.rec = j2.rec
           /\ p1.rec = p2.rec
           /\ Backend(p2.w) = Backend(j2.w)

C12_Witness ==
    /\ prev.op = "juju.run" /\ prev.result = COMPLETED /\ prev.created # {}
    /\ last.op = "pool.run" /\ last.result = COMPLETED
    /\ default_space = "management"
    /\ PUBLIC_POOL_NAME \in k8s_objs
    /\ app_config["traefik"] = INTERNAL_POOL_NAME

\* the "juju spaces" query of the invocation raised
QueryRaised(rec) == \E i \in CallsOf(rec, "spaces", "") : ~rec.calls[i].ok

\* C13: if the live-space query at the start of run fails, run returns FAILED
\* at once: the query is its only call, so that it issues no add-space, no
\* set-space-subnets and no model-config call.
C13_QueryFailureStopsRun ==
    (last.op = "juju.run" /\ QueryRaised(last)) =>
        /\ last.result = FAILED
        /\ last.message = <<"Unable to read model spaces">>
        /\ Len(last.calls) = 1
        /\ ~Mutated(last)

C13_Witness ==
    /\ last.op = "juju.run" /\ QueryRaised(last) /\ last.result = FAILED
    /\ \E i, j \in WithSubnets(last) :
          /\ last.spaces[i].name \in live_spaces
          /\ last.spaces[j].name \notin live_spaces

\* position of a space in the mapping
PosOf(rec, n) == CHOOSE i \in 1..Len(rec.spaces) : rec.spaces[i].name = n

\* C14: spaces are processed in configuration order and the first add-space
\* failure is fatal: run returns FAILED naming that space, the failed call is
\* its last call, no add-space or set-space-subnets is issued for a space
\* later in the mapping, the calls before it are the per-space calls only (no
\* call that undoes one), and the spaces added earlier in the run are in the
\* model when run returns.
C14_FirstAddFailureFatal ==
    last.op = "juju.run" =>
        /\ \A a, b \in 2..Len(last.calls) :
              (a < b /\ last.calls[b].cmd # "model-config") =>
                  PosOf(last, last.calls[a].target) < PosOf(last, last.calls[b].target)
        /\ \A k \in 1..Len(last.calls) :
              (last.calls[k].cmd = "add-space" /\ ~last.calls[k].ok) =>
                  /\ last.result = FAILED
                  /\ last.message = <<"Failed to ensure space", last.calls[k].target>>
                  /\ k = Len(last.calls)
                  /\ \A j \in 1..Len(last.spaces) :
                        j > PosOf(last, last.calls[k].target) =>
                            /\ CallsOf(last, "add-space", last.spaces[j].name) = {}
                            /\ CallsOf(last, "set-space-subnets", last.spaces[j].name) = {}
                  /\ \A i \in 2..Len(last.calls) :
                        last.calls[i].cmd \in {"add-space", "set-space-subnets"}
                  /\ Targets(last, "add-space", TRUE) \subseteq live_spaces

C14_Witness ==
    /\ last.op = "juju.run" /\ last.result = FAILED /\ Len(last.calls) = 3
    /\ last.calls[2].cmd = "add-space" /\ last.calls[2].ok
    /\ last.calls[3].cmd = "add-space" /\ ~last.calls[3].ok
    /\ last.calls[3].target \notin live_spaces
    /\ last.calls[2].target \in live_spaces

\* the calls of the invocation on a resource that succeeded
Applied(rec, name) ==
    {i \in 1..Len(rec.calls) : rec.calls[i].target = name /\ rec.calls[i].ok
                                  /\ rec.calls[i].cmd \in {"create", "replace"}}

\* the pools run was asked for: the roles whose resolved range is truthy
Requested(rec) ==
    {p \in Pools : StrTruthy(rec.ranges[IF p = PUBLIC_POOL_NAME THEN 1 ELSE 2])}

\* C15: in run, a replace is issued only right after the create of the same
\* resource failed; each resource gets at most one create and at most one
\* replace; an advertisement is called only after its pool was applied; every
\* call of the public role precedes every call of the internal role; and the
\* application query and the config calls come only after every requested
\* pool and its advertisement were applied.
C15_CreateReplaceProtocol ==
    last.op = "pool.run" =>
        /\ \A i \in 1..Len(last.calls) :
              last.calls[i].cmd = "replace" =>
                  /\ i > 1
                  /\ last.calls[i - 1] =
                        [last.calls[i] EXCEPT !.cmd = "create", !.ok = FALSE]
        /\ \A n \in ResNames :
              /\ Cardinality(CallsOf(last, "create", n)) <= 1
              /\ Cardinality(CallsOf(last, "replace", n)) <= 1
        /\ \A p \in Pools, i \in 1..Len(last.calls) :
              last.calls[i].target = AdvOf(p) =>
                  /\ \E j \in Applied(last, p) : j < i
                  /\ \A j \in 1..Len(last.calls) : last.calls[j].target = p => j < i
        /\ \A i, j \in 1..Len(last.calls) :
              (/\ last.calls[i].target \in {PUBLIC_POOL_NAME, PUBLIC_ADV_NAME}
               /\ last.calls[j].target \in {INTERNAL_POOL_NAME, INTERNAL_ADV_NAME}) => i < j
        /\ \A i \in 1..Len(last.calls) :
              last.calls[i].cmd \in {"get_application_names", "config"} =>
                  \A p \in Requested(last) :
                      /\ \E j \in Applied(last, p) : j < i
                      /\ \E j \in Applied(last, AdvOf(p)) : j < i

C15_Witness ==
    /\ last.op = "pool.run" /\ last.result = COMPLETED /\ Requested(last) = Pools
    /\ \E i \in CallsOf(last, "replace", PUBLIC_POOL_NAME) : last.calls[i].ok
    /\ \E i \in CallsOf(last, "create", INTERNAL_ADV_NAME) : last.calls[i].ok
    /\ \E i \in 1..Len(last.calls) : last.calls[i].cmd = "config" /\ last.calls[i].ok

\* the spaces, the default space, the MetalLB resources, the applications and
\* their annotations
Backends == <<live_spaces, default_space, k8s_objs, live_apps, app_config>>

ConfigCalls(rec) == {i \in 1..Len(rec.calls) : rec.calls[i].cmd = "config"}

\* C17: run issues a juju config call only for an application that is in the
\* target table and in the live application set, at most one per application,
\* and an application that is not in the table or not deployed keeps its
\* config.
C17_AnnotatesLiveTargetsOnly ==
    last.op = "pool.run" =>
        /\ \A i \in ConfigCalls(last) :
              /\ last.calls[i].target \in DOMAIN TRAEFIK_APPS
              /\ last.calls[i].target \in live_apps
              /\ CallsOf(last, "config", last.calls[i].target) = {i}
        /\ \A a \in Apps \ (DOMAIN TRAEFIK_APPS \cap live_apps) : app_config[a] = None

C17_Witness ==
    /\ last.op = "pool.run" /\ last.result = COMPLETED
    /\ live_apps = {"keystone", "traefik-public", "traefik-rgw"}
    /\ {last.calls[i].target : i \in ConfigCalls(last)} = {"traefik-public", "traefik-rgw"}

\* the answer store holds what the importer stored from an enabled file
ImportedEnabled == ImportEnabled /\ ni_bucket = SavedBucket(snap_json)

\* a pool range is configured in the k8s-addons answers
RangeConfigured ==
    \/ StrTruthy(addons_bucket.lb_public_pool)
    \/ StrTruthy(addons_bucket.lb_internal_pool)
    \/ StrTruthy(addons_bucket.loadbalancer)

\* C18: after the importer has stored a configuration whose enable_isolation
\* is true, with a non-empty spaces mapping and a configured pool range,
\* is_skip of neither step returns SKIPPED.
C18_ImportedConfigEnablesBoth ==
    (/\ last.op \in {"juju.is_skip", "pool.is_skip"}
     /\ ImportedEnabled
     /\ snap_json.spaces # <<>>
     /\ RangeConfigured)
        => last.result # SKIPPED

\* the part of C18 about EnsureJujuSpacesStep alone
C18_ImportedConfigEnablesSpaces ==
    (last.op = "juju.is_skip" /\ ImportedEnabled /\ snap_json.spaces # <<>>)
        => last.result \in {COMPLETED, RAISED}

\* C19: whenever run annotates an application with a pool name, that pool was
\* requested (its resolved range is truthy) and was created or replaced
\* earlier in the same run (stated for the runs that were asked for a pool).
C19_AnnotationNamesAppliedPool ==
    (last.op = "pool.run" /\ Requested(last) # {}) =>
        \A i \in ConfigCalls(last) :
            LET pool == last.calls[i].arg[1] IN
            /\ pool \in Requested(last)
            /\ \E j \in Applied(last, pool) : j < i

\* the invocation issued add-space for a space that was not in the queried
\* set and is in the model: another actor added it after the query
RaceHit(rec) ==
    \E i \in 1..Len(rec.calls) :
        /\ rec.calls[i].cmd = "add-space" /\ ~rec.calls[i].ok
        /\ rec.calls[i].target \notin rec.existing
        /\ rec.calls[i].target \in live_spaces

\* C20: a run in which another actor adds a configured space between the
\* live-space query and the add-space call for it returns FAILED; the run
\* that follows it with unchanged configuration, no interference and no
\* failing command returns COMPLETED, issues add-space for no space that is
\* in the model and set-space-subnets for the space that was raced.
C20_RaceRecoveredByRerun ==
    (last.op = "juju.run" /\ RaceHit(last)) =>
        /\ last.result = FAILED
        /\ FaultFree \in JujuOracles(ni_bucket, live_spaces)
        /\ LET next == JujuRunOutcome(ni_bucket, live_spaces, default_space, FaultFree).rec
           IN /\ next.result = COMPLETED
              /\ \A i \in 1..Len(next.calls) : next.calls[i].ok
              /\ \A n \in live_spaces : CallsOf(next, "add-space", n) = {}
              /\ \A n \in Targets(last, "add-space", FALSE) :
                    CallsOf(next, "set-space-subnets", n) # {}

C20_Witness ==
    /\ last.op = "juju.run" /\ RaceHit(last) /\ last.result = FAILED
    /\ Targets(last, "add-space", TRUE) # {}
    /\ Len(JujuRunOutcome(ni_bucket, live_spaces, default_space, FaultFree).rec.calls) = 4

====
